---------------------------- MODULE Spec2Model ----------------------------
(***************************************************************************)
(* A model of the cygraph storage backends:                                *)
(*   AdjacencyListGraph<Vertex, EdgeWeight>   (include/graph/adjacency_list.hpp)   *)
(*   AdjacencyListGraph<Vertex, bool>         (include/graph/adjacency_list.hpp)   *)
(*   AdjacencyMatrixGraph<Vertex, EdgeWeight> (include/graph/adjacency_matrix.hpp) *)
(*                                                                         *)
(* A graph object is a record of the class's fields.  Every member         *)
(* function is an operator from the object and the arguments to the SET of *)
(* results the call can have, a result being the object after the call,    *)
(* the outcome (OK, the kind of std::invalid_argument thrown, or Crash)    *)
(* and the returned value.  The set is a singleton wherever the C++ is     *)
(* defined; where the code indexes or erases outside a vector the          *)
(* behaviour is undefined and the set holds the outcomes a build produces: *)
(* the process dies (Crash), or the call goes on with an arbitrary value   *)
(* read and nothing in bounds written.                                     *)
(***************************************************************************)
EXTENDS Integers, Sequences, FiniteSets, TLC

VARIABLES backend, graph, last, steps

vars == <<backend, graph, last, steps>>

(* ------------------------------ bounds -------------------------------- *)

MaxVertex == 2

MaxWeight == 2

MaxSteps == 2

MaxBatch == 2

Vertex == 1..MaxVertex

Weight == 1..MaxWeight

(* ------------------------- results of a call -------------------------- *)

OK == "ok"

DuplicateVertex == "DuplicateVertex"

UnknownVertex == "UnknownVertex"

EdgeNotFound == "EdgeNotFound"

EdgeAlreadyExists == "EdgeAlreadyExists"

Crash == "Crash"

Void == "void"

Result(g, out, val) == [g |-> g, out |-> out, val |-> val]

(* ------------------------- container helpers -------------------------- *)

\* unordered_map::operator[]: a missing key is inserted with a
\* value-initialised mapped value
MapIndex(m, k, empty) == IF k \in DOMAIN m THEN m ELSE m @@ (k :> empty)

\* m[k] = x
MapAssign(m, k, x) == [j \in DOMAIN m \cup {k} |-> IF j = k THEN x ELSE m[j]]

\* unordered_map::erase(key)
MapErase(m, k) == [j \in DOMAIN m \ {k} |-> m[j]]

\* the scan "for (child : seq) { if (child.first == v) break; to_remove++; }"
RECURSIVE ScanFrom(_, _, _)
ScanFrom(seq, v, i) ==
    IF i > Len(seq) THEN Len(seq)
    ELSE IF seq[i][1] = v THEN i - 1
    ELSE ScanFrom(seq, v, i + 1)

ToRemove(seq, v) == ScanFrom(seq, v, 1)

\* vector::erase(begin() + i), 0 <= i < size()
VecErase(seq, i) == SubSeq(seq, 1, i) \o SubSeq(seq, i + 2, Len(seq))

\* all orders in which an unordered_set can be iterated
Orders(S) ==
    {f \in [1..Cardinality(S) -> S] : \A i, j \in 1..Cardinality(S) : i # j => f[i] # f[j]}

SeqRange(s) == {s[i] : i \in 1..Len(s)}

(* ------------------ AdjacencyListGraphCommon (vertices) --------------- *)

Common_has_vertex(g, v) == v \in g.vertices

Common_add_vertex(g, v) ==
    IF Common_has_vertex(g, v)
    THEN Result(g, DuplicateVertex, Void)
    ELSE Result([g EXCEPT !.vertices = @ \cup {v}], OK, Void)

\* a variant that inserts while it checks: the vertices met before the
\* duplicate stay in the graph
Common_add_vertices_checking_late(g, S) ==
    IF \E v \in S : Common_has_vertex(g, v)
    THEN Result([g EXCEPT !.vertices = @ \cup S], DuplicateVertex, Void)
    ELSE Result([g EXCEPT !.vertices = @ \cup S], OK, Void)

Common_add_vertices(g, S) ==
    IF \E v \in S : Common_has_vertex(g, v)
    THEN Result(g, DuplicateVertex, Void)
    ELSE Result([g EXCEPT !.vertices = @ \cup S], OK, Void)

Common_remove_vertex(g, v) ==
    IF Common_has_vertex(g, v)
    THEN Result([g EXCEPT !.vertices = @ \ {v}], OK, Void)
    ELSE Result(g, UnknownVertex, Void)

(* --------------- AdjacencyListGraph<Vertex, EdgeWeight> --------------- *)
(* adjacency_list: vertex -> sequence of <<neighbor, weight>>             *)

List_ctor(directed, V) ==
    [directed |-> directed, vertices |-> V, adjacency_list |-> [v \in V |-> <<>>]]

\* adjacency_list[u] inserts the key u when it is missing, also when the
\* call then throws
List_get_edge_weight(g, u, v) ==
    LET al == MapIndex(g.adjacency_list, u, <<>>)
        g1 == [g EXCEPT !.adjacency_list = al]
        i  == ToRemove(al[u], v)
    IN  IF i < Len(al[u])
        THEN {Result(g1, OK, al[u][i + 1][2])}
        ELSE {Result(g1, EdgeNotFound, Void)}

List_add_vertex(g, v) ==
    LET c == Common_add_vertex(g, v)
    IN  IF c.out # OK THEN {c}
        ELSE {Result([c.g EXCEPT !.adjacency_list = MapAssign(@, v, <<>>)], OK, Void)}

List_add_vertices(g, S) ==
    LET c == Common_add_vertices(g, S)
    IN  IF c.out # OK THEN {c}
        ELSE {Result([c.g EXCEPT !.adjacency_list =
                         [k \in DOMAIN @ \cup S |-> IF k \in S THEN <<>> ELSE @[k]]],
                     OK, Void)}

\* The loop over the other vertices assigns each neighbor sequence to the
\* local vector `children` and erases from that copy: no stored sequence
\* changes.
List_remove_vertex(g, v) ==
    LET c == Common_remove_vertex(g, v)
    IN  IF c.out # OK THEN {c}
        ELSE {Result([c.g EXCEPT !.adjacency_list = MapErase(@, v)], OK, Void)}

\* one half of set_edge_weight: drop the entry for `to` in from's sequence
\* if there is one, then push_back {to, weight}
List_put(al, from, to, weight) ==
    LET a == MapIndex(al, from, <<>>)
        i == ToRemove(a[from], to)
        s == IF i < Len(a[from]) THEN VecErase(a[from], i) ELSE a[from]
    IN  MapAssign(a, from, Append(s, <<to, weight>>))

List_set_edge_weight(g, u, v, weight) ==
    IF ~Common_has_vertex(g, u) \/ ~Common_has_vertex(g, v)
    THEN {Result(g, UnknownVertex, Void)}
    ELSE LET a1 == List_put(g.adjacency_list, u, v, weight)
             a2 == IF ~g.directed THEN List_put(a1, v, u, weight) ELSE a1
         IN  {Result([g EXCEPT !.adjacency_list = a2], OK, Void)}

\* what vector::erase(begin() + size()) can do: the process dies, the
\* sequence is left as it is, or its last element is dropped
EraseAtEnd(seq) ==
    {seq} \cup (IF Len(seq) > 0 THEN {SubSeq(seq, 1, Len(seq) - 1)} ELSE {})

List_remove_edge(g, u, v) ==
    IF ~Common_has_vertex(g, u) \/ ~Common_has_vertex(g, v)
    THEN {Result(g, UnknownVertex, Void)}
    ELSE LET a0 == MapIndex(g.adjacency_list, u, <<>>)
             i  == ToRemove(a0[u], v)
         IN  IF ~(i < Len(a0[u]))
             THEN {Result([g EXCEPT !.adjacency_list = a0], EdgeNotFound, Void)}
             ELSE LET a1 == MapAssign(a0, u, VecErase(a0[u], i))
                      g1 == [g EXCEPT !.adjacency_list = a1]
                  IN  IF g.directed THEN {Result(g1, OK, Void)}
                      ELSE LET a2 == MapIndex(a1, v, <<>>)
                               j  == ToRemove(a2[v], u)
                           IN  IF j < Len(a2[v])
                               THEN {Result([g EXCEPT !.adjacency_list =
                                                MapAssign(a2, v, VecErase(a2[v], j))],
                                            OK, Void)}
                               \* the second erase is not guarded
                               ELSE {Result(g1, Crash, Void)} \cup
                                    {Result([g EXCEPT !.adjacency_list = MapAssign(a2, v, s)],
                                            OK, Void) : s \in EraseAtEnd(a2[v])}

List_has_edge(g, u, v) ==
    IF ~Common_has_vertex(g, u) \/ ~Common_has_vertex(g, v)
    THEN {Result(g, OK, FALSE)}
    ELSE LET al == MapIndex(g.adjacency_list, u, <<>>)
         IN  {Result([g EXCEPT !.adjacency_list = al], OK,
                     ToRemove(al[u], v) < Len(al[u]))}

List_get_children(g, v) ==
    IF ~Common_has_vertex(g, v)
    THEN {Result(g, UnknownVertex, Void)}
    ELSE LET al == MapIndex(g.adjacency_list, v, <<>>)
         IN  {Result([g EXCEPT !.adjacency_list = al], OK,
                     {al[v][i][1] : i \in 1..Len(al[v])})}

\* the key v itself is skipped
List_get_parents(g, v) ==
    IF ~Common_has_vertex(g, v)
    THEN {Result(g, UnknownVertex, Void)}
    ELSE {Result(g, OK,
                 {k \in DOMAIN g.adjacency_list :
                     k # v /\ \E i \in 1..Len(g.adjacency_list[k]) :
                                  g.adjacency_list[k][i][1] = v})}

(* ------------------- AdjacencyListGraph<Vertex, bool> ----------------- *)
(* adjacency_list: vertex -> set of neighbors                             *)

UList_ctor(directed, V) ==
    [directed |-> directed, vertices |-> V, adjacency_list |-> [v \in V |-> {}]]

\* no vertex check: adjacency_list[u] inserts the key u when it is missing
UList_has_edge(g, u, v) ==
    LET al == MapIndex(g.adjacency_list, u, {})
    IN  {Result([g EXCEPT !.adjacency_list = al], OK, v \in al[u])}

\* an alias of has_edge that makes no vertex check
UList_get_edge_weight_lenient(g, u, v) == UList_has_edge(g, u, v)

UList_get_edge_weight(g, u, v) ==
    IF ~Common_has_vertex(g, u) \/ ~Common_has_vertex(g, v)
    THEN {Result(g, UnknownVertex, Void)}
    ELSE UList_has_edge(g, u, v)

UList_add_vertex(g, v) ==
    LET c == Common_add_vertex(g, v)
    IN  IF c.out # OK THEN {c}
        ELSE {Result([c.g EXCEPT !.adjacency_list = MapAssign(@, v, {})], OK, Void)}

UList_add_vertices(g, S) ==
    LET c == Common_add_vertices(g, S)
    IN  IF c.out # OK THEN {c}
        ELSE {Result([c.g EXCEPT !.adjacency_list =
                         [k \in DOMAIN @ \cup S |-> IF k \in S THEN {} ELSE @[k]]],
                     OK, Void)}

\* it.second.erase(v) acts on the stored set (it is a reference)
UList_remove_vertex(g, v) ==
    LET c == Common_remove_vertex(g, v)
    IN  IF c.out # OK THEN {c}
        ELSE {Result([c.g EXCEPT !.adjacency_list =
                         [k \in DOMAIN @ \ {v} |-> @[k] \ {v}]],
                     OK, Void)}

\* adjacency_list[u].insert(v); if ( !directed ) adjacency_list[v].insert(u);
UList_insert(g, u, v) ==
    LET a0 == MapIndex(g.adjacency_list, u, {})
        a1 == MapAssign(a0, u, a0[u] \cup {v})
        b0 == MapIndex(a1, v, {})
        a2 == IF ~g.directed THEN MapAssign(b0, v, b0[v] \cup {u}) ELSE a1
    IN  [g EXCEPT !.adjacency_list = a2]

\* adjacency_list[u].erase(v); if ( !directed ) adjacency_list[v].erase(u);
UList_erase(g, u, v) ==
    LET a0 == MapIndex(g.adjacency_list, u, {})
        a1 == MapAssign(a0, u, a0[u] \ {v})
        b0 == MapIndex(a1, v, {})
        a2 == IF ~g.directed THEN MapAssign(b0, v, b0[v] \ {u}) ELSE a1
    IN  [g EXCEPT !.adjacency_list = a2]

UList_remove_edge(g, u, v) ==
    LET h == CHOOSE r \in UList_has_edge(g, u, v) : TRUE
    IN  IF ~h.val
        THEN {Result(h.g, EdgeNotFound, Void)}
        ELSE {Result(UList_erase(h.g, u, v), OK, Void)}

\* weight = false: remove_edge, whose exception is swallowed
UList_set_edge_weight(g, u, v, weight) ==
    IF ~Common_has_vertex(g, u) \/ ~Common_has_vertex(g, v)
    THEN {Result(g, UnknownVertex, Void)}
    ELSE IF weight
         THEN {Result(UList_insert(g, u, v), OK, Void)}
         ELSE {Result(r.g, OK, Void) : r \in UList_remove_edge(g, u, v)}

\* has_edge runs before the vertex check
UList_add_edge(g, u, v) ==
    LET h == CHOOSE r \in UList_has_edge(g, u, v) : TRUE
    IN  IF h.val
        THEN {Result(h.g, EdgeAlreadyExists, Void)}
        ELSE IF ~Common_has_vertex(h.g, u) \/ ~Common_has_vertex(h.g, v)
             THEN {Result(h.g, UnknownVertex, Void)}
             ELSE {Result(UList_insert(h.g, u, v), OK, Void)}

\* a catch block that rethrows without undoing anything
UList_rollback_nothing(g, added, i, e) == Result(g, e, Void)

\* the catch block: remove_edge on every edge added so far, in order; an
\* exception thrown by one of them leaves the block
RECURSIVE UList_rollback(_, _, _, _)
UList_rollback(g, added, i, e) ==
    IF i > Len(added) THEN Result(g, e, Void)
    ELSE LET r == CHOOSE x \in UList_remove_edge(g, added[i][1], added[i][2]) : TRUE
         IN  IF r.out # OK THEN Result(r.g, r.out, Void)
             ELSE UList_rollback(r.g, added, i + 1, e)

RECURSIVE UList_add_edges_from(_, _, _)
UList_add_edges_from(g, edges, i) ==
    IF i > Len(edges) THEN Result(g, OK, Void)
    ELSE LET r == CHOOSE x \in UList_add_edge(g, edges[i][1], edges[i][2]) : TRUE
         IN  IF r.out # OK
             THEN UList_rollback(r.g, SubSeq(edges, 1, i - 1), 1, r.out)
             ELSE UList_add_edges_from(r.g, edges, i + 1)

UList_add_edges(g, edges) == {UList_add_edges_from(g, edges, 1)}

\* the pairs (u, v) with v in adjacency_list[u]
UList_edges(g) ==
    UNION {{<<u, v>> : v \in g.adjacency_list[u]} : u \in DOMAIN g.adjacency_list}

UList_get_children(g, v) ==
    IF ~Common_has_vertex(g, v)
    THEN {Result(g, UnknownVertex, Void)}
    ELSE LET al == MapIndex(g.adjacency_list, v, {})
         IN  {Result([g EXCEPT !.adjacency_list = al], OK, al[v])}

UList_get_parents(g, v) ==
    IF ~Common_has_vertex(g, v)
    THEN {Result(g, UnknownVertex, Void)}
    ELSE {Result(g, OK, {k \in DOMAIN g.adjacency_list : v \in g.adjacency_list[k]})}

(* ------------- AdjacencyMatrixGraph<Vertex, EdgeWeight> --------------- *)
(* adjacency_matrix: sequence of rows of EdgeWeight*; a pointer is the key *)
(* <<row, column>> of the edge_weights node it addresses (indices count    *)
(* from 0, as in the code).  A pointer whose key has been erased dangles.  *)

Null == <<>>

\* what a read outside a row can give besides nullptr
Wild == <<-1>>

\* marks, among the values of a read, that the read killed the process
Fault == <<-2>>

NullRow(n) == [i \in 1..n |-> Null]

InBounds(am, i, j) == i < Len(am) /\ j < Len(am[i + 1])

\* adjacency_matrix[i][j] as an rvalue
ReadCell(am, i, j) == IF InBounds(am, i, j) THEN {am[i + 1][j + 1]} ELSE {Null, Wild, Fault}

\* adjacency_matrix[i][j] = p; a store outside the row changes no cell
WriteCell(am, i, j, p) == IF InBounds(am, i, j) THEN [am EXCEPT ![i + 1][j + 1] = p] ELSE am

\* whether p addresses a node edge_weights holds
Valid(g, p) == \E e \in DOMAIN g.edge_weights : e = p

\* return *weight_ptr: a pointer that addresses no node of edge_weights
\* gives any weight, or the read kills the process
Deref(g, p) ==
    IF Valid(g, p) THEN {Result(g, OK, g.edge_weights[p])}
    ELSE {Result(g, OK, w) : w \in Weight} \cup {Result(g, Crash, Void)}

Matrix_has_vertex(g, v) == v \in SeqRange(g.vertices)

\* -1 stands for the throw of "Vertex not in graph."
Matrix_get_vertex_int(g, v) == IF Matrix_has_vertex(g, v) THEN g.vertex_indices[v] ELSE -1

Matrix_ctor(directed, V) ==
    {[directed |-> directed,
      vertices |-> order,
      vertex_indices |-> [v \in V |-> (CHOOSE i \in 1..Len(order) : order[i] = v) - 1],
      edge_weights |-> [e \in {} |-> 0],
      adjacency_matrix |-> [i \in 1..Cardinality(V) |-> NullRow(Cardinality(V))]]
     : order \in Orders(V)}

Matrix_get_edge_weight(g, u, v) ==
    LET u_index == Matrix_get_vertex_int(g, u)
        v_index == Matrix_get_vertex_int(g, v)
    IN  IF u_index = -1 \/ v_index = -1 THEN {Result(g, UnknownVertex, Void)}
        ELSE UNION {IF weight_ptr = Fault THEN {Result(g, Crash, Void)}
                    ELSE IF weight_ptr = Null THEN {Result(g, EdgeNotFound, Void)}
                    ELSE Deref(g, weight_ptr)
                    : weight_ptr \in ReadCell(g.adjacency_matrix, u_index, v_index)}

\* the new row is built with n_vertices cells, the size before the push_back
Matrix_add_vertex(g, v) ==
    IF Matrix_has_vertex(g, v) THEN {Result(g, DuplicateVertex, Void)}
    ELSE LET n_vertices == Len(g.vertices)
         IN  {Result([g EXCEPT !.vertices = Append(@, v),
                               !.vertex_indices = MapAssign(@, v, n_vertices),
                               !.adjacency_matrix =
                                   Append([i \in 1..Len(@) |-> Append(@[i], Null)],
                                          NullRow(n_vertices))],
                     OK, Void)}

\* n_vertices is read after the insert and counts on while the indices are
\* handed out; every row then gets n_vertices more cells, and n_vertices
\* rows are added, the first of n_vertices cells, the others empty
Matrix_add_vertices(g, S) ==
    IF \E v \in S : Matrix_has_vertex(g, v) THEN {Result(g, DuplicateVertex, Void)}
    ELSE {LET vs == g.vertices \o order
              n0 == Len(vs)
              n_vertices == n0 + Len(order)
              am == g.adjacency_matrix
          IN  Result([g EXCEPT !.vertices = vs,
                               !.vertex_indices =
                                   [k \in DOMAIN @ \cup S |->
                                       IF k \in S
                                       THEN n0 + (CHOOSE i \in 1..Len(order) : order[i] = k) - 1
                                       ELSE @[k]],
                               !.adjacency_matrix =
                                   [i \in 1..Len(am) |-> am[i] \o NullRow(n_vertices)] \o
                                   [i \in 1..n_vertices |->
                                       IF i = 1 THEN NullRow(n_vertices) ELSE <<>>]],
                     OK, Void)
          : order \in Orders(S)}

Matrix_has_edge(g, u, v) ==
    LET u_index == Matrix_get_vertex_int(g, u)
        v_index == Matrix_get_vertex_int(g, v)
    IN  IF u_index = -1 \/ v_index = -1 THEN {Result(g, UnknownVertex, Void)}
        ELSE {IF weight_ptr = Fault THEN Result(g, Crash, Void)
              ELSE Result(g, OK, weight_ptr # Null)
              : weight_ptr \in ReadCell(g.adjacency_matrix, u_index, v_index)}

\* the positions 0..|vertices|-1 of row (children) or column (parents)
\* v_index: a cell in bounds counts when it is not nullptr, a cell out of
\* bounds may count or not, or the read kills the process
Scan(g, v_index, byRow) ==
    LET am == g.adjacency_matrix
        P == 0..(Len(g.vertices) - 1)
        In(k) == IF byRow THEN InBounds(am, v_index, k) ELSE InBounds(am, k, v_index)
        At(k) == IF byRow THEN am[v_index + 1][k + 1] ELSE am[k + 1][v_index + 1]
        sure == {g.vertices[k + 1] : k \in {x \in P : In(x) /\ At(x) # Null}}
        out == {g.vertices[k + 1] : k \in {x \in P : ~In(x)}}
    IN  {Result(g, OK, sure \cup X) : X \in SUBSET out} \cup
        (IF \E k \in P : ~In(k) THEN {Result(g, Crash, Void)} ELSE {})

Matrix_get_children(g, v) ==
    LET v_index == Matrix_get_vertex_int(g, v)
    IN  IF v_index = -1 THEN {Result(g, UnknownVertex, Void)}
        ELSE Scan(g, v_index, TRUE)

Matrix_get_parents(g, v) ==
    LET v_index == Matrix_get_vertex_int(g, v)
    IN  IF v_index = -1 THEN {Result(g, UnknownVertex, Void)}
        ELSE Scan(g, v_index, FALSE)

Matrix_set_edge_weight(g, u, v, weight) ==
    LET u_index == Matrix_get_vertex_int(g, u)
        v_index == Matrix_get_vertex_int(g, v)
        am == g.adjacency_matrix
    IN  IF u_index = -1 \/ v_index = -1 THEN {Result(g, UnknownVertex, Void)}
        ELSE LET e1 == MapAssign(g.edge_weights, <<u_index, v_index>>, weight)
                 m1 == WriteCell(am, u_index, v_index, <<u_index, v_index>>)
                 e2 == IF ~g.directed
                       THEN MapAssign(e1, <<v_index, u_index>>, weight) ELSE e1
                 m2 == IF ~g.directed
                       THEN WriteCell(m1, v_index, u_index, <<v_index, u_index>>) ELSE m1
                 outside == ~InBounds(am, u_index, v_index)
                            \/ (~g.directed /\ ~InBounds(am, v_index, u_index))
             IN  {Result([g EXCEPT !.edge_weights = e2, !.adjacency_matrix = m2], OK, Void)}
                 \cup (IF outside THEN {Result(g, Crash, Void)} ELSE {})

\* an absent edge is reported on std::cerr and the call returns
Matrix_remove_edge(g, u, v) ==
    LET u_index == Matrix_get_vertex_int(g, u)
        v_index == Matrix_get_vertex_int(g, v)
        am == g.adjacency_matrix
    IN  IF u_index = -1 \/ v_index = -1 THEN {Result(g, UnknownVertex, Void)}
        ELSE UNION {
            IF p = Fault THEN {Result(g, Crash, Void)}
            ELSE IF p = Null THEN {Result(g, OK, Void)}
            ELSE LET e1 == MapErase(g.edge_weights, <<u_index, v_index>>)
                     m1 == WriteCell(am, u_index, v_index, Null)
                     e2 == IF ~g.directed THEN MapErase(e1, <<v_index, u_index>>) ELSE e1
                     m2 == IF ~g.directed THEN WriteCell(m1, v_index, u_index, Null) ELSE m1
                     outside == ~InBounds(am, u_index, v_index)
                                \/ (~g.directed /\ ~InBounds(am, v_index, u_index))
                 IN  {Result([g EXCEPT !.edge_weights = e2, !.adjacency_matrix = m2],
                             OK, Void)}
                     \cup (IF outside THEN {Result(g, Crash, Void)} ELSE {})
            : p \in ReadCell(am, u_index, v_index)}

\* edge_weights.erase(pair(a, b)) for every pair of the set
EraseKeys(ew, keys) == [e \in DOMAIN ew \ keys |-> ew[e]]

\* adjacency_matrix.erase(begin() + v_index): past the last row the erase
\* is undefined
EraseRow(am, v_index) ==
    IF v_index < Len(am) THEN {VecErase(am, v_index)} ELSE EraseAtEnd(am)

\* adjacency_matrix[i].erase(begin() + v_index) for i = 0 .. n-1, n the
\* number of vertices before the removal: a row that does not exist is
\* left out, a row too short is left as it is or loses its last cell
RECURSIVE EraseColumn(_, _, _, _)
EraseColumn(am, i, n, v_index) ==
    IF i >= n THEN {am}
    ELSE IF i >= Len(am) THEN EraseColumn(am, i + 1, n, v_index)
    ELSE UNION {EraseColumn([am EXCEPT ![i + 1] = row], i + 1, n, v_index)
                : row \in (IF v_index < Len(am[i + 1])
                           THEN {VecErase(am[i + 1], v_index)}
                           ELSE EraseAtEnd(am[i + 1]))}

\* whether the column loop leaves the matrix or one of its rows
ColumnOutside(am, n, v_index) ==
    \E i \in 0..(n - 1) : i >= Len(am) \/ v_index >= Len(am[i + 1])

\* vertex_indices keeps the index of every other vertex
Matrix_remove_vertex(g, v) ==
    LET v_index == Matrix_get_vertex_int(g, v)
        n == Len(g.vertices)
        am == g.adjacency_matrix
        Idx(x) == g.vertex_indices[x]
        pos == CHOOSE i \in 1..n : g.vertices[i] = v
        After(ew, am2) ==
            [g EXCEPT !.edge_weights = ew,
                      !.adjacency_matrix = am2,
                      !.vertices = VecErase(@, pos - 1),
                      !.vertex_indices = MapErase(@, v)]
        Rest(ew) ==
            UNION {{Result(After(ew, am2), OK, Void) : am2 \in EraseColumn(am1, 0, n, v_index)}
                   \cup (IF v_index >= Len(am) \/ ColumnOutside(am1, n, v_index)
                         THEN {Result(g, Crash, Void)} ELSE {})
                   : am1 \in EraseRow(am, v_index)}
    IN  IF v_index = -1 THEN {Result(g, UnknownVertex, Void)}
        ELSE UNION {
            IF c.out = Crash THEN {c}
            ELSE IF g.directed
                 THEN UNION {
                     IF p.out = Crash THEN {p}
                     ELSE Rest(EraseKeys(g.edge_weights,
                                         {<<v_index, Idx(x)>> : x \in c.val}
                                         \cup {<<Idx(x), v_index>> : x \in p.val}))
                     : p \in Matrix_get_parents(g, v)}
                 ELSE Rest(EraseKeys(g.edge_weights,
                                     {<<v_index, Idx(x)>> : x \in c.val}
                                     \cup {<<Idx(x), v_index>> : x \in c.val}))
            : c \in Matrix_get_children(g, v)}

(* ------------------------- the object in use -------------------------- *)

Backends == {"list", "ulist", "matrix"}

\* the weights a caller can pass: bool in the unweighted specialisation
WeightsOf(b) == IF b = "ulist" THEN BOOLEAN ELSE Weight

Construct(b, directed, V) ==
    CASE b = "list"   -> {List_ctor(directed, V)}
      [] b = "ulist"  -> {UList_ctor(directed, V)}
      [] b = "matrix" -> Matrix_ctor(directed, V)

has_vertex(g, v) ==
    IF backend = "matrix" THEN Matrix_has_vertex(g, v) ELSE Common_has_vertex(g, v)

add_vertex(g, v) ==
    CASE backend = "list"   -> List_add_vertex(g, v)
      [] backend = "ulist"  -> UList_add_vertex(g, v)
      [] backend = "matrix" -> Matrix_add_vertex(g, v)

add_vertices(g, S) ==
    CASE backend = "list"   -> List_add_vertices(g, S)
      [] backend = "ulist"  -> UList_add_vertices(g, S)
      [] backend = "matrix" -> Matrix_add_vertices(g, S)

remove_vertex(g, v) ==
    CASE backend = "list"   -> List_remove_vertex(g, v)
      [] backend = "ulist"  -> UList_remove_vertex(g, v)
      [] backend = "matrix" -> Matrix_remove_vertex(g, v)

set_edge_weight(g, u, v, w) ==
    CASE backend = "list"   -> List_set_edge_weight(g, u, v, w)
      [] backend = "ulist"  -> UList_set_edge_weight(g, u, v, w)
      [] backend = "matrix" -> Matrix_set_edge_weight(g, u, v, w)

get_edge_weight(g, u, v) ==
    CASE backend = "list"   -> List_get_edge_weight(g, u, v)
      [] backend = "ulist"  -> UList_get_edge_weight(g, u, v)
      [] backend = "matrix" -> Matrix_get_edge_weight(g, u, v)

remove_edge(g, u, v) ==
    CASE backend = "list"   -> List_remove_edge(g, u, v)
      [] backend = "ulist"  -> UList_remove_edge(g, u, v)
      [] backend = "matrix" -> Matrix_remove_edge(g, u, v)

has_edge(g, u, v) ==
    CASE backend = "list"   -> List_has_edge(g, u, v)
      [] backend = "ulist"  -> UList_has_edge(g, u, v)
      [] backend = "matrix" -> Matrix_has_edge(g, u, v)

get_children(g, v) ==
    CASE backend = "list"   -> List_get_children(g, v)
      [] backend = "ulist"  -> UList_get_children(g, v)
      [] backend = "matrix" -> Matrix_get_children(g, v)

get_parents(g, v) ==
    CASE backend = "list"   -> List_get_parents(g, v)
      [] backend = "ulist"  -> UList_get_parents(g, v)
      [] backend = "matrix" -> Matrix_get_parents(g, v)

(* --------------------------- the state machine ------------------------ *)
(* backend: which class the object is; graph: the object; steps: the      *)
(* mutator calls made so far; last: the last mutator call and its         *)
(* outcome, or the query that ended the process.                          *)

Call(op, out) == [op |-> op, out |-> out]

Edges == Vertex \X Vertex

Batches == UNION {[1..n -> Edges] : n \in 0..MaxBatch}

Init ==
    /\ backend \in Backends
    /\ \E directed \in BOOLEAN, V \in SUBSET Vertex :
           graph \in Construct(backend, directed, V)
    /\ last = Call("ctor", OK)
    /\ steps = 0

Alive == last.out # Crash

\* what is left of the object once the process has died
NoGraph == [directed |-> FALSE]

\* a call can be made while the process lives and the bound allows
Ready == Alive /\ steps < MaxSteps

\* a call of a member function that changes vertices or edges
Mutate(op, results) ==
    /\ Ready
    /\ \E r \in results :
           /\ graph' = IF r.out = Crash THEN NoGraph ELSE r.g
           /\ last' = Call(op, r.out)
    /\ steps' = steps + 1
    /\ UNCHANGED backend

\* a call of a query: the object after it is the one the query leaves
\* (operator[] may have inserted a key)
Query(op, results) ==
    /\ Ready
    /\ \E r \in results :
           /\ graph' = IF r.out = Crash THEN NoGraph ELSE r.g
           /\ last' = IF r.out = Crash THEN Call(op, Crash) ELSE last
    /\ UNCHANGED <<backend, steps>>

HasVertex ==
    \E v \in Vertex : Query("has_vertex", {Result(graph, OK, has_vertex(graph, v))})

AddVertex ==
    \E v \in Vertex : Mutate("add_vertex", add_vertex(graph, v))

AddVertices ==
    \E S \in SUBSET Vertex : Mutate("add_vertices", add_vertices(graph, S))

RemoveVertex ==
    \E v \in Vertex : Mutate("remove_vertex", remove_vertex(graph, v))

SetEdgeWeight ==
    \E u \in Vertex, v \in Vertex, w \in WeightsOf(backend) :
        Mutate("set_edge_weight", set_edge_weight(graph, u, v, w))

GetEdgeWeight ==
    \E u \in Vertex, v \in Vertex : Query("get_edge_weight", get_edge_weight(graph, u, v))

RemoveEdge ==
    \E u \in Vertex, v \in Vertex : Mutate("remove_edge", remove_edge(graph, u, v))

HasEdge ==
    \E u \in Vertex, v \in Vertex : Query("has_edge", has_edge(graph, u, v))

GetChildren ==
    \E v \in Vertex : Query("get_children", get_children(graph, v))

GetParents ==
    \E v \in Vertex : Query("get_parents", get_parents(graph, v))

AddEdge ==
    /\ backend = "ulist"
    /\ \E u \in Vertex, v \in Vertex : Mutate("add_edge", UList_add_edge(graph, u, v))

AddEdges ==
    /\ backend = "ulist"
    /\ \E edges \in Batches : Mutate("add_edges", UList_add_edges(graph, edges))

Next ==
    \/ HasVertex
    \/ AddVertex
    \/ AddVertices
    \/ RemoveVertex
    \/ SetEdgeWeight
    \/ GetEdgeWeight
    \/ RemoveEdge
    \/ HasEdge
    \/ GetChildren
    \/ GetParents
    \/ AddEdge
    \/ AddEdges

Spec == Init /\ [][Next]_vars

(* ------------------------ reading the results ------------------------- *)

\* the call returns val, whatever the build
Returns(results, val) == \A r \in results : r.out = OK /\ r.val = val

\* the call fails with the given kind of error, whatever the build
Fails(results, kind) == \A r \in results : r.out = kind

Called(op) == Alive /\ last.op = op

InGraph == {v \in Vertex : has_vertex(graph, v)}

\* the weights set_edge_weight creates an edge with
Creating == IF backend = "ulist" THEN {TRUE} ELSE Weight

(* ------------------------------ claims -------------------------------- *)
(* A claim about what holds after a call is stated for every call that    *)
(* can be made in the current state: for each argument and each result r  *)
(* of the call, the property of r.g, the object after the call.           *)

\* C1: after set_edge_weight(u, v, w) succeeds on two vertices of the graph
\* (w a weight, or true in the boolean mode), has_edge(u, v) is true and
\* get_edge_weight(u, v) returns w, in every backend, directed or not,
\* whatever calls came before.
C1_SetThenRead ==
    Alive =>
        \A u \in InGraph, v \in InGraph, w \in Creating :
            \A r \in set_edge_weight(graph, u, v, w) :
                r.out = OK =>
                    /\ Returns(has_edge(r.g, u, v), TRUE)
                    /\ Returns(get_edge_weight(r.g, u, v), w)

\* has_edge(u, v) and has_edge(v, u) agree and, when the edge is there, so
\* do the two weights
Mirrored(g, u, v) ==
    \A a \in has_edge(g, u, v), b \in has_edge(g, v, u) :
        /\ a.out = OK /\ b.out = OK /\ a.val = b.val
        /\ a.val => \A x \in get_edge_weight(g, u, v), y \in get_edge_weight(g, v, u) :
                        x.out = OK /\ y.out = OK /\ x.val = y.val

\* C2: in every reachable state of an undirected graph, for all vertices
\* u, v of the graph, has_edge(u, v) = has_edge(v, u) and, when the edge
\* exists, get_edge_weight(u, v) = get_edge_weight(v, u).
C2_UndirectedMirror ==
    (Alive /\ ~graph.directed) => \A u \in InGraph, v \in InGraph : Mirrored(graph, u, v)

\* C3: after remove_vertex(v) succeeds, has_vertex(v) is false and, for
\* every remaining vertex x, has_edge(x, v) and has_edge(v, x) return false.
C3_RemoveVertexCascades ==
    Alive =>
        \A v \in Vertex : \A r \in remove_vertex(graph, v) :
            r.out = OK =>
                /\ ~has_vertex(r.g, v)
                /\ \A x \in Vertex :
                       has_vertex(r.g, x) =>
                           /\ Returns(has_edge(r.g, x, v), FALSE)
                           /\ Returns(has_edge(r.g, v, x), FALSE)

\* C4: in every reachable state, for every vertex x of the graph,
\* get_children(x) and get_parents(x) contain only vertices of the graph.
C4_EndpointsAreVertices ==
    Alive =>
        \A x \in InGraph :
            /\ \A r \in get_children(graph, x) : r.out = OK => r.val \subseteq InGraph
            /\ \A r \in get_parents(graph, x) : r.out = OK => r.val \subseteq InGraph

\* C5: add_vertex(v) fails with DuplicateVertex and changes nothing when v
\* is in the graph; otherwise it succeeds, has_vertex(v) is true and
\* has_edge(v, x), has_edge(x, v) are false for every vertex x of the graph.
C5_AddVertexIsolated ==
    Alive =>
        \A v \in Vertex : \A r \in add_vertex(graph, v) :
            IF has_vertex(graph, v)
            THEN r.out = DuplicateVertex /\ r.g = graph
            ELSE /\ r.out = OK
                 /\ has_vertex(r.g, v)
                 /\ \A x \in Vertex :
                        has_vertex(r.g, x) =>
                            /\ Returns(has_edge(r.g, v, x), FALSE)
                            /\ Returns(has_edge(r.g, x, v), FALSE)

\* C6: add_vertices(S) is all-or-nothing: if a member of S is in the graph
\* the call fails with DuplicateVertex and the object is unchanged (no
\* member of S that was absent is present, vertices and edges are as
\* before); otherwise it succeeds and has_vertex holds of every member.
C6_AddVerticesAllOrNothing ==
    Alive =>
        \A S \in SUBSET Vertex : \A r \in add_vertices(graph, S) :
            IF \E v \in S : has_vertex(graph, v)
            THEN r.out = DuplicateVertex /\ r.g = graph
            ELSE r.out = OK /\ \A v \in S : has_vertex(r.g, v)

\* a batch with a member already present and a member absent was refused,
\* in a graph that has an edge
C6_Witness ==
    /\ Called("add_vertices")
    /\ last.out = DuplicateVertex
    /\ InGraph # {} /\ InGraph # Vertex
    /\ \E u \in InGraph, v \in InGraph : Returns(has_edge(graph, u, v), TRUE)

\* C7: remove_edge(u, v) on two vertices of the graph with no edge (u, v)
\* fails with EdgeNotFound and leaves the object unchanged, in every backend.
C7_RemoveAbsentEdgeFails ==
    Alive =>
        \A u \in InGraph, v \in InGraph :
            Returns(has_edge(graph, u, v), FALSE) =>
                \A r \in remove_edge(graph, u, v) : r.out = EdgeNotFound /\ r.g = graph

\* C8: has_edge(u, v) never fails: it returns, and returns false when u or
\* v is not in the graph.
C8_HasEdgeNeverFails ==
    Alive =>
        \A u \in Vertex, v \in Vertex : \A r \in has_edge(graph, u, v) :
            /\ r.out = OK
            /\ (u \notin InGraph \/ v \notin InGraph) => r.val = FALSE

\* C9: in an undirected graph, for every vertex v of the graph,
\* get_children(v) and get_parents(v) return the same set, which contains
\* v when v has a self-loop.
C9_ChildrenAreParents ==
    (Alive /\ ~graph.directed) =>
        \A v \in InGraph :
            \A c \in get_children(graph, v), p \in get_parents(graph, v) :
                /\ c.out = OK /\ p.out = OK /\ c.val = p.val
                /\ Returns(has_edge(graph, v, v), TRUE) => v \in c.val

\* C10: get_children(v) and get_parents(v) fail with UnknownVertex when v
\* is not in the graph; otherwise get_children(v) is the set of x with
\* has_edge(v, x) and get_parents(v) the set of x with has_edge(x, v).
C10_ChildrenParentsExact ==
    Alive =>
        \A v \in Vertex :
            IF v \notin InGraph
            THEN /\ Fails(get_children(graph, v), UnknownVertex)
                 /\ Fails(get_parents(graph, v), UnknownVertex)
            ELSE /\ Returns(get_children(graph, v),
                            {x \in Vertex : Returns(has_edge(graph, v, x), TRUE)})
                 /\ Returns(get_parents(graph, v),
                            {x \in Vertex : Returns(has_edge(graph, x, v), TRUE)})

\* the edges has_edge reports
EdgeRel(g) == {e \in Edges : Returns(has_edge(g, e[1], e[2]), TRUE)}

\* whether add_edge fails for an edge of the batch: an endpoint is not in
\* the set V of vertices, the edge is in the relation rel already, or it
\* repeats an earlier element of the batch (or, undirected, the mirror of
\* one)
BatchFails(V, rel, directed, batch) ==
    \E i \in 1..Len(batch) :
        \/ batch[i][1] \notin V \/ batch[i][2] \notin V
        \/ batch[i] \in rel
        \/ \E j \in 1..(i - 1) :
               \/ batch[j] = batch[i]
               \/ ~directed /\ batch[j] = <<batch[i][2], batch[i][1]>>

\* C11: in the unweighted list backend add_edges(batch) is all-or-nothing:
\* if add_edge fails for an edge of the batch the call fails with that
\* error and the vertices and the edge relation are as before the call;
\* otherwise it succeeds and every edge of the batch is present.  Stated
\* of every call of add_edges a caller can make (AddEdges); the edge
\* relation is read from the stored sets, which in every state hold
\* exactly the edges has_edge reports.
C11_AddEdgesAllOrNothing ==
    (Alive /\ backend = "ulist") =>
        \A V \in {InGraph}, rel \in {EdgeRel(graph)} :
            /\ UList_edges(graph) = rel
            /\ Ready =>
                   \A batch \in Batches : \A r \in UList_add_edges(graph, batch) :
                       IF BatchFails(V, rel, graph.directed, batch)
                       THEN /\ r.out \in {EdgeAlreadyExists, UnknownVertex}
                            /\ r.g.vertices = V
                            /\ UList_edges(r.g) = rel
                       ELSE /\ r.out = OK
                            /\ SeqRange(batch) \subseteq UList_edges(r.g)

\* a graph with an edge in which a caller can pass a batch whose first
\* edge is added and whose second edge is refused as already present
C11_Witness ==
    /\ backend = "ulist"
    /\ Ready
    /\ EdgeRel(graph) # {}
    /\ \E batch \in Batches :
           /\ Len(batch) = 2
           /\ \A r \in UList_add_edge(graph, batch[1][1], batch[1][2]) : r.out = OK
           /\ \A r \in UList_add_edges(graph, batch) : r.out = EdgeAlreadyExists

\* the query left the object as it was and, asked again, answers the same
Pure(results, again(_)) ==
    \A r \in results :
        r.out # Crash =>
            /\ r.g = graph
            /\ \A r2 \in again(r.g) : r2.out # Crash => r2.out = r.out /\ r2.val = r.val

\* C12: has_vertex, has_edge, get_children and get_parents never mutate
\* state: for known and unknown vertices alike a call leaves the vertex
\* collection and the stored adjacency structure, its set of keys included,
\* unchanged, and the same query asked again returns the same result.
C12_QueriesDoNotMutate ==
    Alive =>
        \A u \in Vertex :
            /\ LET children(g) == get_children(g, u) IN Pure(children(graph), children)
            /\ LET parents(g) == get_parents(g, u) IN Pure(parents(graph), parents)
            /\ \A v \in Vertex :
                   LET edge(g) == has_edge(g, u, v) IN Pure(edge(graph), edge)

\* the two calls end the same way with the same value, whatever the build
Same(before, after) ==
    \A a \in before, b \in after : a.out = b.out /\ a.out # Crash /\ a.val = b.val

\* the edges remove_edge(u, v) is to remove
Removed(g, u, v) == IF g.directed THEN {<<u, v>>} ELSE {<<u, v>>, <<v, u>>}

\* C13: remove_edge(u, v) on an edge of the graph, u = v included,
\* succeeds; afterwards has_edge(u, v) is false and get_edge_weight(u, v)
\* fails on a weighted graph, the mirror (v, u) is gone as well in an
\* undirected graph, and the vertices and every other edge and weight
\* (that of (v, u) in a directed graph included) are as before.
C13_RemoveEdgeExact ==
    Alive =>
        \A u \in InGraph, v \in InGraph :
            Returns(has_edge(graph, u, v), TRUE) =>
                \A r \in remove_edge(graph, u, v) :
                    /\ r.out = OK
                    /\ {x \in Vertex : has_vertex(r.g, x)} = InGraph
                    /\ \A e \in Removed(graph, u, v) :
                           /\ Returns(has_edge(r.g, e[1], e[2]), FALSE)
                           /\ backend # "ulist" =>
                                  Fails(get_edge_weight(r.g, e[1], e[2]), EdgeNotFound)
                    /\ \A e \in (InGraph \X InGraph) \ Removed(graph, u, v) :
                           /\ Same(has_edge(graph, e[1], e[2]), has_edge(r.g, e[1], e[2]))
                           /\ Same(get_edge_weight(graph, e[1], e[2]),
                                   get_edge_weight(r.g, e[1], e[2]))

(* --------------- the two backends driven side by side ----------------- *)
(* graph holds an AdjacencyListGraph and an AdjacencyMatrixGraph built    *)
(* from the same flag and the same vertices; every call is made on both.  *)

PairInit ==
    /\ backend = "both"
    /\ \E directed \in BOOLEAN, V \in SUBSET Vertex :
           \E m \in Matrix_ctor(directed, V) :
               graph = [list |-> List_ctor(directed, V), matrix |-> m]
    /\ last = Call("ctor", OK)
    /\ steps = 0

\* one call on both objects
PairCall(op, listResults, matrixResults, counted) ==
    /\ Ready
    /\ \E l \in listResults, m \in matrixResults :
           IF l.out = Crash \/ m.out = Crash
           THEN graph' = NoGraph /\ last' = Call(op, Crash)
           ELSE /\ graph' = [list |-> l.g, matrix |-> m.g]
                /\ last' = IF counted THEN Call(op, OK) ELSE last
    /\ steps' = IF counted THEN steps + 1 ELSE steps
    /\ UNCHANGED backend

PairAddVertex ==
    \E v \in Vertex :
        PairCall("add_vertex", List_add_vertex(graph.list, v),
                 Matrix_add_vertex(graph.matrix, v), TRUE)

PairAddVertices ==
    \E S \in SUBSET Vertex :
        PairCall("add_vertices", List_add_vertices(graph.list, S),
                 Matrix_add_vertices(graph.matrix, S), TRUE)

PairRemoveVertex ==
    \E v \in Vertex :
        PairCall("remove_vertex", List_remove_vertex(graph.list, v),
                 Matrix_remove_vertex(graph.matrix, v), TRUE)

PairSetEdgeWeight ==
    \E u \in Vertex, v \in Vertex, w \in Weight :
        PairCall("set_edge_weight", List_set_edge_weight(graph.list, u, v, w),
                 Matrix_set_edge_weight(graph.matrix, u, v, w), TRUE)

PairRemoveEdge ==
    \E u \in Vertex, v \in Vertex :
        PairCall("remove_edge", List_remove_edge(graph.list, u, v),
                 Matrix_remove_edge(graph.matrix, u, v), TRUE)

PairGetEdgeWeight ==
    \E u \in Vertex, v \in Vertex :
        PairCall("get_edge_weight", List_get_edge_weight(graph.list, u, v),
                 Matrix_get_edge_weight(graph.matrix, u, v), FALSE)

PairHasEdge ==
    \E u \in Vertex, v \in Vertex :
        PairCall("has_edge", List_has_edge(graph.list, u, v),
                 Matrix_has_edge(graph.matrix, u, v), FALSE)

PairGetChildren ==
    \E v \in Vertex :
        PairCall("get_children", List_get_children(graph.list, v),
                 Matrix_get_children(graph.matrix, v), FALSE)

PairGetParents ==
    \E v \in Vertex :
        PairCall("get_parents", List_get_parents(graph.list, v),
                 Matrix_get_parents(graph.matrix, v), FALSE)

PairNext ==
    \/ PairAddVertex
    \/ PairAddVertices
    \/ PairRemoveVertex
    \/ PairSetEdgeWeight
    \/ PairRemoveEdge
    \/ PairGetEdgeWeight
    \/ PairHasEdge
    \/ PairGetChildren
    \/ PairGetParents

PairSpec == PairInit /\ [][PairNext]_vars

\* the two calls end the same way, with the same value when they return
Agree(listResults, matrixResults) ==
    \A l \in listResults, m \in matrixResults :
        l.out = m.out /\ l.out # Crash /\ (l.out = OK => l.val = m.val)

\* C14: started from the same flag and vertices and driven by the same
\* calls, the list backend and the matrix backend give the same outcome
\* (value, or kind of failure) for every call of has_vertex, has_edge,
\* get_edge_weight, get_children and get_parents, and the same success or
\* failure for every mutator.  Checked under PairSpec.
C14_Interchangeable ==
    Alive =>
        LET l == graph.list
            m == graph.matrix
        IN  /\ \A v \in Vertex :
                   /\ Common_has_vertex(l, v) = Matrix_has_vertex(m, v)
                   /\ Agree(List_get_children(l, v), Matrix_get_children(m, v))
                   /\ Agree(List_get_parents(l, v), Matrix_get_parents(m, v))
                   /\ Agree(List_add_vertex(l, v), Matrix_add_vertex(m, v))
                   /\ Agree(List_remove_vertex(l, v), Matrix_remove_vertex(m, v))
            /\ \A u \in Vertex, v \in Vertex :
                   /\ Agree(List_has_edge(l, u, v), Matrix_has_edge(m, u, v))
                   /\ Agree(List_get_edge_weight(l, u, v), Matrix_get_edge_weight(m, u, v))
                   /\ Agree(List_remove_edge(l, u, v), Matrix_remove_edge(m, u, v))
                   /\ \A w \in Weight :
                          Agree(List_set_edge_weight(l, u, v, w),
                                Matrix_set_edge_weight(m, u, v, w))
            /\ \A S \in SUBSET Vertex :
                   Agree(List_add_vertices(l, S), Matrix_add_vertices(m, S))

\* C15: in a directed graph set_edge_weight(u, v, w) with u # v changes
\* neither has_edge(v, u) nor the weight of (v, u): both calls end the same
\* way before and after it, in every backend.
C15_DirectedIndependence ==
    (Alive /\ graph.directed) =>
        \A u \in InGraph, v \in InGraph, w \in WeightsOf(backend) :
            \A r \in set_edge_weight(graph, u, v, w) :
                (u # v /\ r.out = OK) =>
                    /\ Same(has_edge(graph, v, u), has_edge(r.g, v, u))
                    /\ Same(get_edge_weight(graph, v, u), get_edge_weight(r.g, v, u))

\* the pairs of vertices of which at least one is not in the graph
Unknown == {e \in Edges : e[1] \notin InGraph \/ e[2] \notin InGraph}

\* C16 (as stated): when u or v is not in the graph, get_edge_weight(u, v)
\* returns false without failing in the unweighted list backend, and fails
\* with UnknownVertex in the weighted list backend and the matrix backend.
C16_LenientUnweighted ==
    Alive =>
        \A e \in Unknown :
            IF backend = "ulist"
            THEN Returns(get_edge_weight(graph, e[1], e[2]), FALSE)
            ELSE Fails(get_edge_weight(graph, e[1], e[2]), UnknownVertex)

\* u's stored sequence has an entry for v
Stored(g, u, v) ==
    /\ u \in DOMAIN g.adjacency_list
    /\ \E i \in 1..Len(g.adjacency_list[u]) : g.adjacency_list[u][i][1] = v

\* C16 (amended): when u or v is not in the graph, get_edge_weight(u, v)
\* fails with UnknownVertex in the unweighted list backend and in the
\* matrix backend; the weighted list backend makes no vertex check: it
\* returns the weight when u's sequence still has an entry for v, and
\* fails with EdgeNotFound otherwise.
C16_UnknownVertexWeight ==
    Alive =>
        \A e \in Unknown :
            IF backend = "list"
            THEN \A r \in get_edge_weight(graph, e[1], e[2]) :
                     IF Stored(graph, e[1], e[2])
                     THEN r.out = OK /\ r.val \in Weight
                     ELSE r.out = EdgeNotFound
            ELSE Fails(get_edge_weight(graph, e[1], e[2]), UnknownVertex)

\* an unweighted graph with an edge, from which a vertex has been removed
C16_Witness ==
    /\ backend = "ulist"
    /\ Called("remove_vertex")
    /\ last.out = OK
    /\ EdgeRel(graph) # {}
    /\ \E e \in Unknown :
           e[1] \in InGraph /\ Fails(get_edge_weight(graph, e[1], e[2]), UnknownVertex)

\* C17: in every reachable state of the matrix backend vertex_indices maps
\* the current vertices one-to-one onto 0 .. |V|-1, each vertex to its
\* position in the vertex sequence.
C17_IndexConsistency ==
    (Alive /\ backend = "matrix") =>
        /\ DOMAIN graph.vertex_indices = SeqRange(graph.vertices)
        /\ \A i \in 1..Len(graph.vertices) :
               graph.vertex_indices[graph.vertices[i]] = i - 1

\* C18: in every reachable state of the matrix backend a cell (i, j) is
\* non-empty exactly when edge_weights has an entry with key (i, j), and
\* the cell then refers to that entry.
C18_StoreCell ==
    (Alive /\ backend = "matrix") =>
        LET am == graph.adjacency_matrix
            cells == UNION {{<<i, j>> : j \in {k \in 0..(Len(am[i + 1]) - 1) :
                                                    am[i + 1][k + 1] # Null}}
                            : i \in 0..(Len(am) - 1)}
        IN  /\ cells = DOMAIN graph.edge_weights
            /\ \A c \in cells : am[c[1] + 1][c[2] + 1] = c

\* C19: in every reachable state of the matrix backend the adjacency
\* matrix has exactly |V| rows and every row has exactly |V| cells.
C19_Shape ==
    (Alive /\ backend = "matrix") =>
        /\ Len(graph.adjacency_matrix) = Len(graph.vertices)
        /\ \A i \in 1..Len(graph.adjacency_matrix) :
               Len(graph.adjacency_matrix[i]) = Len(graph.vertices)

\* C20: in an undirected weighted list graph in which u's sequence has an
\* entry for v (u and v in the graph, u = v included), the second erase of
\* remove_edge(u, v), that of u from v's sequence, is applied at an index
\* smaller than the length of v's sequence.
C20_SecondEraseInRange ==
    (Alive /\ backend = "list" /\ ~graph.directed) =>
        \A u \in InGraph, v \in InGraph :
            Stored(graph, u, v) =>
                LET al == graph.adjacency_list
                    a1 == MapAssign(al, u, VecErase(al[u], ToRemove(al[u], v)))
                IN  /\ ToRemove(a1[v], u) < Len(a1[v])
                    /\ \A r \in List_remove_edge(graph, u, v) : r.out = OK

\* C21: in every reachable state of the matrix backend the accesses of an
\* operation that passed its vertex check are within bounds: the cell
\* (u_index, v_index) of set_edge_weight, get_edge_weight, has_edge and
\* remove_edge for vertices u, v of the graph, the cells scanned by
\* get_children and get_parents, and the row and the column erased by
\* remove_vertex.
C21_AccessesInBounds ==
    (Alive /\ backend = "matrix") =>
        LET am == graph.adjacency_matrix
            n == Len(graph.vertices)
            Idx(v) == Matrix_get_vertex_int(graph, v)
        IN  /\ \A u \in InGraph, v \in InGraph : InBounds(am, Idx(u), Idx(v))
            /\ \A v \in InGraph, k \in 0..(n - 1) :
                   InBounds(am, Idx(v), k) /\ InBounds(am, k, Idx(v))
            /\ \A v \in InGraph :
                   /\ Idx(v) < Len(am)
                   /\ \A am1 \in EraseRow(am, Idx(v)) : ~ColumnOutside(am1, n, Idx(v))

=============================================================================
